---- MODULE Spec2Model ----
(***************************************************************************)
(* Model of ai-backend/main.py: a retrieval-augmented question-answering   *)
(* service.  Documents are parsed, chunked and written into one Chroma     *)
(* collection per document; questions are answered from the chunks the     *)
(* index returns.                                                          *)
(*                                                                         *)
(* Abstractions.                                                           *)
(*  - A text is a sequence of blocks [label, len, val]: len is the number  *)
(*    of characters of the block after whitespace normalisation (0 for a   *)
(*    whitespace-only block), val stands for its content (what the         *)
(*    embedding model sees), label is the page label parse_pdf prefixes    *)
(*    (0 when there is none).                                              *)
(*  - Distances are in tenths (15 is 1.5), similarity scores in            *)
(*    twentieths (20 is 1.0), so that 1 - d/2 and 1 - d stay integers.     *)
(*  - The vector store, the embedding model and the generative model are   *)
(*    external: each call either returns or raises, chosen by the          *)
(*    environment.                                                         *)
(*  - The store is a PersistentClient on disk, shared by every process     *)
(*    that serves the application.  Spec and SpecMulti handle one request  *)
(*    at a time; SpecRace runs an index request and a /qa/ask request of   *)
(*    two processes side by side, one call on the store per step.          *)
(***************************************************************************)
EXTENDS Integers, Sequences, FiniteSets

VARIABLES
    collections,   \* names of the collections that exist in CHROMA_CLIENT
    entries,       \* the entries of all collections: [coll, id, document, metadata]
    issuedCount,   \* how many times uuid4() has returned each identifier
    req,           \* the request being answered (endpoint and payload)
    trace,         \* the calls the request made on the index, in order
    context_data,  \* the retrieval result of the request
    llm_prompts,   \* the prompts the request sent to the generative model
    resp,          \* the HTTP response
    indexing,      \* an index request another server process is handling
    asking         \* where the /qa/ask request stands when it runs beside it

vars == <<collections, entries, issuedCount, req, trace, context_data, llm_prompts, resp,
          indexing, asking>>

\* ------------------------------------------------------------------ bounds
MaxDocs == 2        \* uuid4() calls in a run of Spec
MaxQuery == 1       \* distinct non-empty question texts
MaxListLen == 2     \* length of document_ids in /qa/ask-multiple, in Spec
MultiDocs == 1      \* uuid4() calls in a run of SpecMulti
MultiListLen == 4   \* length of document_ids in /qa/ask-multiple, in SpecMulti
RaceDocs == 2       \* uuid4() calls in a run of SpecRace

\* ------------------------------------------------------- program constants
AskK == 5           \* k of retrieve_context as the handlers call it
KPerDoc == 3        \* k_per_doc of retrieve_context_multiple_docs
MultiCutoff == 15   \* distance < 1.5, in tenths
TopN == 10          \* all_contexts[:10]
MinPageLen == 10    \* len(page_text.strip()) > 10
SummaryChunks == 15 \* chunks[:15]
ScoreOne == 20      \* a similarity score of 1.0, in twentieths

\* ------------------------------------------------------------------ inputs
IdSpace == {1, 2, 3}                 \* the values uuid4() can return
NoId == 0                            \* a missing or empty document_id
Questions == 0..MaxQuery             \* 0 is a missing or empty question

Blk(len, val) == [label |-> 0, len |-> len, val |-> val]

\* the number of chunks of the long upload: more than generate_document_summary reads
LongFileChunks == SummaryChunks + 2

\* The uploads: one file per case of the parsing code.
Files ==
    { [ext |-> ".txt",  units |-> <<Blk(20, 3)>>],
      [ext |-> ".txt",  units |-> <<Blk(0, 0), Blk(0, 0)>>],
      [ext |-> ".txt",  units |-> <<Blk(20, 1), Blk(20, 2), Blk(0, 0), Blk(20, 3),
                                    Blk(20, 1), Blk(20, 2), Blk(20, 3)>>],
      [ext |-> ".docx", units |-> <<Blk(0, 0)>>],
      [ext |-> ".DOCX", units |-> <<Blk(0, 0), Blk(20, 3), Blk(0, 0)>>],
      [ext |-> ".pdf",  units |-> <<Blk(0, 0), Blk(10, 1), Blk(3, 2)>>],
      [ext |-> ".pdf",  units |-> <<Blk(9, 1), Blk(11, 2), Blk(0, 0), Blk(30, 3)>>],
      [ext |-> ".txt",  units |-> [i \in 1..LongFileChunks |->
                                      Blk(20, IF i > SummaryChunks THEN 3 ELSE 2)]],
      [ext |-> ".csv",  units |-> <<Blk(20, 1)>>],
      [ext |-> ".csv",  units |-> <<Blk(0, 0)>>] }

Min(a, b) == IF a <= b THEN a ELSE b

\* ------------------------------------------------------------------ parsing
Lower(ext) ==
    CASE ext = ".PDF"  -> ".pdf"
      [] ext = ".DOCX" -> ".docx"
      [] ext = ".TXT"  -> ".txt"
      [] OTHER         -> ext

\* str.strip() of a text is empty
IsBlank(text) == \A i \in 1..Len(text) : text[i].len = 0

IsNonBlankBlock(b) == b.len > 0

parse_txt(file) == [status |-> 200, detail |-> "", text |-> file.units]

parse_docx(file) ==
    [status |-> 200, detail |-> "", text |-> SelectSeq(file.units, IsNonBlankBlock)]

\* a page is kept when its normalised text has more than 10 characters
PageKept(page) == page.len > 0 /\ page.len > MinPageLen

RECURSIVE PdfPages(_, _)
PdfPages(pages, page_num) ==
    IF page_num >= Len(pages) THEN <<>>
    ELSE LET page == pages[page_num + 1]
             rest == PdfPages(pages, page_num + 1)
         IN IF PageKept(page)
            THEN <<[label |-> page_num + 1, len |-> page.len, val |-> page.val]>> \o rest
            ELSE rest

parse_pdf(file) ==
    LET text == PdfPages(file.units, 0)
    IN IF IsBlank(text)
       THEN [status |-> 500, detail |-> "PDF Parsing Error", text |-> <<>>]
       ELSE [status |-> 200, detail |-> "", text |-> text]

\* text_splitter.split_text: whitespace is stripped and empty pieces dropped;
\* every block fits one chunk
split_text(raw_text) ==
    LET kept == SelectSeq(raw_text, IsNonBlankBlock)
    IN [i \in 1..Len(kept) |-> [label |-> kept[i].label, val |-> kept[i].val]]

\* ------------------------------------------------------------ vector store
\* cosine distance between the embeddings of a question and of a chunk, in tenths
\* (0 = identical, 20 = opposite): the chunk contents 1, 2, 3 lie at 0.3, 1.2 and
\* 1.5 from question 1, and every further question is 0.9 further round
BaseDist == <<3, 12, 15>>

Dist(q, c) == (BaseDist[c.val] + 9 * (q - 1)) % 21

CollEntries(es, coll) == {e \in es : e.coll = coll}

Count(es, coll) == Cardinality(CollEntries(es, coll))

\* collection.get(): the entries in insertion order
RECURSIVE InIdOrder(_)
InIdOrder(S) ==
    IF S = {} THEN <<>>
    ELSE LET first == CHOOSE e \in S : \A o \in S : e.id <= o.id
         IN <<first>> \o InIdOrder(S \ {first})

\* collection.query(n_results = n): the n nearest entries, nearest first
RECURSIVE Nearest(_, _, _)
Nearest(S, q, n) ==
    IF S = {} \/ n <= 0 THEN <<>>
    ELSE LET best == CHOOSE e \in S : \A o \in S :
                        \/ Dist(q, e.document) < Dist(q, o.document)
                        \/ Dist(q, e.document) = Dist(q, o.document) /\ e.id <= o.id
         IN <<[document |-> best.document, metadata |-> best.metadata,
               distance |-> Dist(q, best.document)]>> \o Nearest(S \ {best}, q, n - 1)

Query(es, coll, q, n) == Nearest(CollEntries(es, coll), q, n)

\* collection.add with ids and chunk_index counted from 1
NewEntriesFromOne(chunks, document_id) ==
    {[coll |-> document_id, id |-> i + 1, document |-> chunks[i + 1],
      metadata |-> [chunk_index |-> i + 1]] : i \in 0..(Len(chunks) - 1)}

\* collection.add: one entry per chunk; an id the collection already holds is kept
NewEntries(chunks, document_id) ==
    {[coll |-> document_id, id |-> i, document |-> chunks[i + 1],
      metadata |-> [chunk_index |-> i]] : i \in 0..(Len(chunks) - 1)}

Add(es, chunks, document_id) ==
    es \cup {n \in NewEntries(chunks, document_id) :
                \A e \in es : ~(e.coll = n.coll /\ e.id = n.id)}

\* insert_chunks_to_chroma with one collection name for every document
SharedName == CHOOSE d \in IdSpace : \A o \in IdSpace : d <= o

insert_chunks_to_shared(colls, es, chunks, document_id, add_raises) ==
    IF add_raises \/ Len(chunks) = 0
    THEN [status |-> 500, collections |-> colls \cup {SharedName}, entries |-> es]
    ELSE [status |-> 200, collections |-> colls \cup {SharedName},
          entries |-> Add(es, chunks, SharedName)]

\* insert_chunks_to_chroma; add_raises: collection.add raises (it does on an
\* empty list of ids), after get_or_create_collection has made the collection
insert_chunks_to_chroma(colls, es, chunks, document_id, add_raises) ==
    IF add_raises \/ Len(chunks) = 0
    THEN [status |-> 500, collections |-> colls \cup {document_id}, entries |-> es]
    ELSE [status |-> 200, collections |-> colls \cup {document_id},
          entries |-> Add(es, chunks, document_id)]

\* an identifier source that may return a value again
Uuid4Repeating(issued) == IdSpace

\* the identifiers uuid4() may return: one it has not returned before
Uuid4(issued) == {d \in IdSpace : issued[d] = 0}

\* ---------------------------------------------------------------- retrieval
\* similarity score of retrieve_context: 1 - distance / 2
SingleScore(distance) == ScoreOne - distance

\* similarity score of retrieve_context_multiple_docs: 1 - distance
MultiScore(distance) == ScoreOne - 2 * distance

\* retrieve_context with the distance cutoff of the multi-document search
retrieve_context_filtered(colls, es, query, document_id, k, query_raises) ==
    IF document_id \notin colls
    THEN [context |-> <<>>, raised |-> FALSE,
          trace |-> <<[call |-> "get_collection", coll |-> document_id, ok |-> FALSE]>>]
    ELSE LET collection_count == Count(es, document_id)
             opened == <<[call |-> "get_collection", coll |-> document_id, ok |-> TRUE],
                         [call |-> "count", coll |-> document_id, ok |-> TRUE]>>
             n_results == Min(k, collection_count)
             results == SelectSeq(Query(es, document_id, query, n_results),
                                  LAMBDA r : r.distance < MultiCutoff)
         IN IF collection_count = 0
            THEN [context |-> <<>>, raised |-> FALSE, trace |-> opened]
            ELSE [context |-> IF query_raises THEN <<>>
                              ELSE [i \in 1..Len(results) |->
                                     [content |-> results[i].document,
                                      metadata |-> results[i].metadata,
                                      similarity_score |->
                                         SingleScore(results[i].distance)]],
                  raised |-> FALSE,
                  trace |-> opened \o <<[call |-> "query", coll |-> document_id,
                                         n_results |-> n_results,
                                         ok |-> ~query_raises]>>]

\* retrieve_context with get_collection outside the try block: a missing
\* collection raises to the caller
retrieve_context_unguarded(colls, es, query, document_id, k, query_raises) ==
    IF document_id \notin colls
    THEN [context |-> <<>>, raised |-> TRUE,
          trace |-> <<[call |-> "get_collection", coll |-> document_id, ok |-> FALSE]>>]
    ELSE LET n_results == Min(k, Count(es, document_id))
             results == Query(es, document_id, query, n_results)
         IN [context |-> IF query_raises THEN <<>>
                         ELSE [i \in 1..Len(results) |->
                                 [content |-> results[i].document,
                                  metadata |-> results[i].metadata,
                                  similarity_score |-> SingleScore(results[i].distance)]],
             raised |-> FALSE,
             trace |-> <<[call |-> "get_collection", coll |-> document_id, ok |-> TRUE],
                         [call |-> "query", coll |-> document_id,
                          n_results |-> n_results, ok |-> ~query_raises]>>]

\* retrieve_context(query, document_id, k); query_raises: collection.query raises.
\* Returns the context list, the calls made on the index, and whether an
\* exception leaves the function (both try blocks catch every Exception)
retrieve_context(colls, es, query, document_id, k, query_raises) ==
    IF document_id \notin colls
    THEN [context |-> <<>>, raised |-> FALSE,
          trace |-> <<[call |-> "get_collection", coll |-> document_id, ok |-> FALSE]>>]
    ELSE LET collection_count == Count(es, document_id)
             opened == <<[call |-> "get_collection", coll |-> document_id, ok |-> TRUE],
                         [call |-> "count", coll |-> document_id, ok |-> TRUE]>>
         IN IF collection_count = 0
            THEN [context |-> <<>>, raised |-> FALSE, trace |-> opened]
            ELSE LET n_results == Min(k, collection_count)
                     results == Query(es, document_id, query, n_results)
                     asked == opened \o <<[call |-> "query", coll |-> document_id,
                                           n_results |-> n_results,
                                           ok |-> ~query_raises]>>
                 IN IF query_raises
                    THEN [context |-> <<>>, raised |-> FALSE, trace |-> asked]
                    ELSE [context |->
                             [i \in 1..Len(results) |->
                                 [content |-> results[i].document,
                                  metadata |-> results[i].metadata,
                                  similarity_score |-> SingleScore(results[i].distance)]],
                          raised |-> FALSE,
                          trace |-> asked]

\* the cutoff taken inclusively
AcceptedInclusive(distance) == distance <= MultiCutoff

\* the distance test a result must pass in retrieve_context_multiple_docs
Accepted(distance) == distance < MultiCutoff

\* the results of one document that pass the cutoff, tagged with their source
RECURSIVE TagResults(_, _, _)
TagResults(results, doc_id, i) ==
    IF i >= Len(results) THEN <<>>
    ELSE LET r == results[i + 1]
             rest == TagResults(results, doc_id, i + 1)
         IN IF Accepted(r.distance)
            THEN <<[content |-> r.document, metadata |-> r.metadata,
                    similarity_score |-> MultiScore(r.distance),
                    document_id |-> doc_id,
                    source |-> [document |-> doc_id, chunk |-> i]]>> \o rest
            ELSE rest

\* one iteration of the loop over document_ids: what the document contributes,
\* and whether the try block raised
SearchOne(colls, es, query, doc_id, k_per_doc, failing) ==
    IF doc_id \notin colls
    THEN [raised |-> TRUE, found |-> <<>>,
          trace |-> <<[call |-> "get_collection", coll |-> doc_id, ok |-> FALSE]>>]
    ELSE LET opened == <<[call |-> "get_collection", coll |-> doc_id, ok |-> TRUE],
                         [call |-> "query", coll |-> doc_id, n_results |-> k_per_doc,
                          ok |-> doc_id \notin failing]>>
         IN IF doc_id \in failing
            THEN [raised |-> TRUE, found |-> <<>>, trace |-> opened]
            ELSE [raised |-> FALSE,
                  found |-> TagResults(Query(es, doc_id, query, k_per_doc), doc_id, 0),
                  trace |-> opened]

\* the loop with the try block around it: an iteration that raises ends the loop
RECURSIVE SearchAllAborting(_, _, _, _, _, _)
SearchAllAborting(colls, es, query, document_ids, k_per_doc, failing) ==
    IF document_ids = <<>> THEN [all_contexts |-> <<>>, trace |-> <<>>]
    ELSE LET one == SearchOne(colls, es, query, Head(document_ids), k_per_doc, failing)
             rest == SearchAllAborting(colls, es, query, Tail(document_ids), k_per_doc,
                                       failing)
         IN IF one.raised
            THEN [all_contexts |-> <<>>, trace |-> one.trace]
            ELSE [all_contexts |-> one.found \o rest.all_contexts,
                  trace |-> one.trace \o rest.trace]

\* the loop over document_ids: an iteration that raises is skipped (continue)
RECURSIVE SearchAll(_, _, _, _, _, _)
SearchAll(colls, es, query, document_ids, k_per_doc, failing) ==
    IF document_ids = <<>> THEN [all_contexts |-> <<>>, trace |-> <<>>]
    ELSE LET one == SearchOne(colls, es, query, Head(document_ids), k_per_doc, failing)
             rest == SearchAll(colls, es, query, Tail(document_ids), k_per_doc, failing)
         IN [all_contexts |-> one.found \o rest.all_contexts,
             trace |-> one.trace \o rest.trace]

\* list.sort(key = similarity_score, reverse = True): stable, highest score first
RECURSIVE InsertByScore(_, _)
InsertByScore(sorted, x) ==
    IF sorted = <<>> THEN <<x>>
    ELSE IF Head(sorted).similarity_score >= x.similarity_score
         THEN <<Head(sorted)>> \o InsertByScore(Tail(sorted), x)
         ELSE <<x>> \o sorted

\* the sort without reverse=True: lowest score first
RECURSIVE SortAscending(_)
SortAscending(xs) ==
    IF xs = <<>> THEN <<>>
    ELSE LET low == CHOOSE i \in 1..Len(xs) :
                       \A j \in 1..Len(xs) :
                          \/ xs[i].similarity_score < xs[j].similarity_score
                          \/ xs[i].similarity_score = xs[j].similarity_score /\ i <= j
         IN <<xs[low]>> \o SortAscending(SubSeq(xs, 1, low - 1)
                                           \o SubSeq(xs, low + 1, Len(xs)))

RECURSIVE SortByScore(_)
SortByScore(xs) ==
    IF xs = <<>> THEN <<>>
    ELSE InsertByScore(SortByScore(SubSeq(xs, 1, Len(xs) - 1)), xs[Len(xs)])

\* all_contexts[:10]
TopResults(xs) == SubSeq(xs, 1, Min(TopN, Len(xs)))

retrieve_context_multiple_docs(colls, es, query, document_ids, k_per_doc, failing) ==
    LET searched == SearchAll(colls, es, query, document_ids, k_per_doc, failing)
    IN [context |-> TopResults(SortByScore(searched.all_contexts)),
        all_contexts |-> searched.all_contexts,
        trace |-> searched.trace]

\* ------------------------------------------------------------- generation
NoContextAnswer ==
    "I could not find relevant context in the document to answer that question."

NoContextAnswerMultiple ==
    "I could not find relevant context in the selected documents to answer that question."

Contents(context) == [i \in 1..Len(context) |-> context[i].content]

\* generate_rag_response without its test for an empty context
generate_rag_response_unguarded(context, user_question, llm_raises) ==
    [text |-> IF llm_raises
              THEN "Error: The AI service failed to generate a response"
              ELSE "response.text",
     prompts |-> <<[template |-> "rag", content |-> Contents(context),
                    question |-> user_question, ok |-> ~llm_raises]>>,
     raised |-> FALSE]

\* generate_rag_response; llm_raises: generate_content raises.  Returns the
\* text, the prompts sent to the model (ok: the call returned), and whether an
\* exception leaves the function (the try block catches every Exception)
generate_rag_response(context, user_question, llm_raises) ==
    IF context = <<>>
    THEN [text |-> NoContextAnswer, prompts |-> <<>>, raised |-> FALSE]
    ELSE [text |-> IF llm_raises
                   THEN "Error: The AI service failed to generate a response"
                   ELSE "response.text",
          prompts |-> <<[template |-> "rag", content |-> Contents(context),
                         question |-> user_question, ok |-> ~llm_raises]>>,
          raised |-> FALSE]

\* contexts_by_doc of contextual_qa_multiple: the contexts grouped by document,
\* documents in order of first appearance
RECURSIVE GroupByDoc(_, _)
GroupByDoc(context, seen) ==
    IF context = <<>> THEN <<>>
    ELSE LET d == Head(context).document_id
         IN IF d \in seen THEN GroupByDoc(Tail(context), seen)
            ELSE <<[document_id |-> d,
                    contents |-> Contents(SelectSeq(context,
                                     LAMBDA c : c.document_id = d))]>>
                 \o GroupByDoc(Tail(context), seen \cup {d})

generate_rag_response_with_sources(context, user_question, llm_raises) ==
    [text |-> IF llm_raises THEN "Error generating response" ELSE "response.text",
     prompts |-> <<[template |-> "rag_sources", content |-> GroupByDoc(context, {}),
                    question |-> user_question, ok |-> ~llm_raises]>>,
     raised |-> FALSE]

SummaryTypes == {"overview", "key_points", "executive", "detailed"}

\* prompts.get(summary_type, prompts["overview"])
SummaryTemplate(summary_type) ==
    IF summary_type \in SummaryTypes THEN summary_type ELSE "overview"

SummaryFallback(summary_type) ==
    CASE summary_type = "overview"   -> "Unable to generate overview summary at this time."
      [] summary_type = "key_points" -> "Unable to generate key_points summary at this time."
      [] summary_type = "executive"  -> "Unable to generate executive summary at this time."
      [] summary_type = "detailed"   -> "Unable to generate detailed summary at this time."
      [] OTHER                       -> "Unable to generate (given type) summary at this time."

\* the chunks without the truncation
AllChunks(chunks) == chunks

\* chunks[:15]
FirstChunks(chunks) == SubSeq(chunks, 1, Min(SummaryChunks, Len(chunks)))

\* generate_document_summary without its try block: a failure of
\* generate_content leaves the function
generate_document_summary_uncaught(chunks, summary_type, llm_raises) ==
    [text |-> "response.text",
     prompts |-> <<[template |-> SummaryTemplate(summary_type),
                    content |-> FirstChunks(chunks),
                    question |-> 0, ok |-> ~llm_raises]>>,
     raised |-> llm_raises]

generate_document_summary(chunks, summary_type, llm_raises) ==
    [text |-> IF llm_raises THEN SummaryFallback(summary_type) ELSE "response.text",
     prompts |-> <<[template |-> SummaryTemplate(summary_type),
                    content |-> FirstChunks(chunks),
                    question |-> 0, ok |-> ~llm_raises]>>,
     raised |-> FALSE]

\* ---------------------------------------------------------------- handlers
RECURSIVE SumOver(_, _)
SumOver(f, S) ==
    IF S = {} THEN 0
    ELSE LET d == CHOOSE x \in S : TRUE IN f[d] + SumOver(f, S \ {d})

\* the parsing step with every other extension read as plain text
ParseUploadLenient(file) ==
    LET file_extension == Lower(file.ext)
    IN CASE file_extension = ".pdf"  -> parse_pdf(file)
         [] file_extension = ".docx" -> parse_docx(file)
         [] OTHER                    -> parse_txt(file)

\* the parsing step of index_document and index_document_with_summary
ParseUpload(file) ==
    LET file_extension == Lower(file.ext)
    IN CASE file_extension = ".pdf"  -> parse_pdf(file)
         [] file_extension = ".docx" -> parse_docx(file)
         [] file_extension = ".txt"  -> parse_txt(file)
         [] OTHER -> [status |-> 400, detail |-> "Unsupported file type", text |-> <<>>]

\* what an index request answers before it touches the store, 200 when it goes on
IndexRefusal(file) ==
    LET parsed == ParseUpload(file)
    IN IF parsed.status # 200
       THEN [status |-> parsed.status, detail |-> parsed.detail]
       ELSE IF IsBlank(parsed.text)
       THEN [status |-> 422, detail |-> "Could not extract any meaningful text."]
       ELSE [status |-> 200, detail |-> ""]

NoRequest == [endpoint |-> "none"]

NoResponse == [endpoint |-> "none", status |-> 0, body |-> [detail |-> ""]]

\* no index request is running in another process
NoIndexing == [pc |-> "none"]

\* the /qa/ask request is not between two calls on the store
NotAsking == [pc |-> "none"]

\* no request is being handled
Idle == req = NoRequest

\* the handler refuses the request before it reads the index or calls the model
Refuse(endpoint, status, detail) ==
    /\ resp' = [endpoint |-> endpoint, status |-> status, body |-> [detail |-> detail]]
    /\ trace' = <<>>
    /\ context_data' = <<>>
    /\ llm_prompts' = <<>>
    /\ UNCHANGED <<collections, entries, issuedCount, indexing, asking>>

\* an exception no handler catches: the framework answers 500
Uncaught(endpoint) ==
    [endpoint |-> endpoint, status |-> 500, body |-> [detail |-> "Internal Server Error"]]

\* index_document (with_summary = FALSE) and index_document_with_summary,
\* for the uploads of files, in a run of at most max_docs uuid4() calls
IndexRequest(endpoint, with_summary, max_docs, files) ==
    /\ Idle
    /\ \E file \in files :
        LET refusal == IndexRefusal(file)
            chunks == split_text(ParseUpload(file).text)
        IN /\ req' = [endpoint |-> endpoint, file |-> file]
           /\ IF refusal.status # 200
              THEN Refuse(endpoint, refusal.status, refusal.detail)
              ELSE /\ SumOver(issuedCount, IdSpace) < max_docs
                   /\ \E llm_raises \in (IF with_summary THEN BOOLEAN ELSE {FALSE}),
                         document_id \in Uuid4(issuedCount), add_raises \in BOOLEAN :
                        LET summary == generate_document_summary(chunks, "overview",
                                                                 llm_raises)
                            stored == insert_chunks_to_chroma(collections, entries,
                                                              chunks, document_id, add_raises)
                        IN /\ trace' = <<>>
                           /\ context_data' = <<>>
                           /\ llm_prompts' = IF with_summary THEN summary.prompts ELSE <<>>
                           /\ UNCHANGED <<indexing, asking>>
                           /\ IF with_summary /\ summary.raised
                              THEN /\ resp' = Uncaught(endpoint)
                                   /\ UNCHANGED <<collections, entries, issuedCount>>
                              ELSE /\ issuedCount' =
                                        [issuedCount EXCEPT ![document_id] = @ + 1]
                                   /\ collections' = stored.collections
                                   /\ entries' = stored.entries
                                   /\ resp' =
                                        IF stored.status # 200
                                        THEN [endpoint |-> endpoint, status |-> 500,
                                              body |-> [detail |->
                                                  "Database error during indexing"]]
                                        ELSE [endpoint |-> endpoint, status |-> 200,
                                              body |-> [status |-> "success",
                                                        document_id |-> document_id,
                                                        total_chunks_indexed |-> Len(chunks),
                                                        ai_summary |->
                                                            IF with_summary THEN summary.text
                                                            ELSE ""]]

IndexDocument == IndexRequest("/document/index", FALSE, MaxDocs, Files)

IndexDocumentWithSummary ==
    IndexRequest("/document/index-with-summary", TRUE, MaxDocs, Files)

\* the uploads of fewer chunks than generate_document_summary reads: a search
\* takes at most k_per_doc results of a document, however many chunks it has
ShortFiles == {file \in Files : Len(file.units) < SummaryChunks}

\* index_document in the runs of SpecMulti
IndexDocumentFew == IndexRequest("/document/index", FALSE, MultiDocs, ShortFiles)

\* the outcomes of a call the request may or may not make: the environment
\* chooses whether it raises only when it is made
Outcomes(made) == IF made THEN BOOLEAN ELSE {FALSE}

\* if not document_id or not question, with one of the two tests left out
MissingFieldIdOnly(document_id, question) == document_id = NoId

\* if not document_id or not question
MissingField(document_id, question) == document_id = NoId \/ question = 0

\* what contextual_qa answers once generate_rag_response is through
AskAnswered(document_id, context, answer) ==
    IF answer.raised THEN Uncaught("/qa/ask")
    ELSE [endpoint |-> "/qa/ask", status |-> 200,
          body |-> [answer |-> answer.text,
                    document_id |-> document_id,
                    sources_used |->
                       [i \in 1..Len(context) |->
                          [source_info |-> context[i].metadata,
                           similarity |-> context[i].similarity_score]]]]

\* contextual_qa: POST /qa/ask
ContextualQa ==
    /\ Idle
    /\ \E document_id \in IdSpace \cup {NoId}, question \in Questions :
        /\ req' = [endpoint |-> "/qa/ask", document_id |-> document_id,
                   question |-> question]
        /\ IF MissingField(document_id, question)
           THEN Refuse("/qa/ask", 400, "Missing document_id or question.")
           ELSE \E query_raises \in Outcomes(Count(entries, document_id) > 0
                                             /\ document_id \in collections) :
                  \E found \in {retrieve_context(collections, entries, question,
                                                document_id, AskK, query_raises)} :
                     \E llm_raises \in Outcomes(found.context # <<>>) :
                       LET answer == generate_rag_response(found.context, question,
                                                           llm_raises)
                       IN /\ UNCHANGED <<collections, entries, issuedCount, indexing, asking>>
                          /\ trace' = found.trace
                          /\ context_data' = found.context
                          /\ IF found.raised
                             THEN /\ llm_prompts' = <<>>
                                  /\ resp' = Uncaught("/qa/ask")
                             ELSE IF found.context = <<>>
                             THEN /\ llm_prompts' = <<>>
                                  /\ resp' = [endpoint |-> "/qa/ask", status |-> 200,
                                              body |-> [answer |-> NoContextAnswer]]
                             ELSE /\ llm_prompts' = answer.prompts
                                  /\ resp' = AskAnswered(document_id, found.context,
                                                          answer)

\* the values of document_ids: the lists of at most max_len identifiers
IdLists(max_len) == UNION {[1..n -> IdSpace] : n \in 0..max_len}

Range(f) == {f[i] : i \in DOMAIN f}

\* the documents whose query the store fails: none, or one of those queried
Failings(colls, document_ids) ==
    {{}} \cup {{d} : d \in Range(document_ids) \cap colls}

\* if not document_ids or not question
MissingFieldMultiple(document_ids, question) == document_ids = <<>> \/ question = 0

\* contextual_qa_multiple: POST /qa/ask-multiple, with document_ids of at most
\* max_len identifiers
QaMultiple(max_len) ==
    /\ Idle
    /\ \E document_ids \in IdLists(max_len), question \in Questions :
        /\ req' = [endpoint |-> "/qa/ask-multiple", document_ids |-> document_ids,
                   question |-> question]
        /\ IF MissingFieldMultiple(document_ids, question)
           THEN Refuse("/qa/ask-multiple", 400, "Missing document_ids or question.")
           ELSE \E failing \in Failings(collections, document_ids) :
                  \E found \in {retrieve_context_multiple_docs(collections, entries,
                                   question, document_ids, KPerDoc, failing)} :
                     \E llm_raises \in Outcomes(found.context # <<>>) :
                       LET answer == generate_rag_response_with_sources(found.context,
                                         question, llm_raises)
                       IN /\ UNCHANGED <<collections, entries, issuedCount, indexing, asking>>
                          /\ trace' = found.trace
                          /\ context_data' = found.context
                          /\ IF found.context = <<>>
                             THEN /\ llm_prompts' = <<>>
                                  /\ resp' = [endpoint |-> "/qa/ask-multiple",
                                              status |-> 200,
                                              body |-> [answer |-> NoContextAnswerMultiple]]
                             ELSE /\ llm_prompts' = answer.prompts
                                  /\ resp' = IF answer.raised
                                             THEN Uncaught("/qa/ask-multiple")
                                             ELSE [endpoint |-> "/qa/ask-multiple",
                                                   status |-> 200,
                                                   body |-> [answer |-> answer.text]]

ContextualQaMultiple == QaMultiple(MaxListLen)

\* contextual_qa_multiple in the runs of SpecMulti
ContextualQaMultipleLong == QaMultiple(MultiListLen)

StoredChunks(es, document_id) ==
    LET got == InIdOrder(CollEntries(es, document_id))
    IN [i \in 1..Len(got) |-> got[i].document]

\* the try block of the two summary handlers up to the first generate call:
\* the status of the exception it raises, 200 when it raises none.
\* get_collection raises on a missing collection; the handler itself raises
\* HTTPException(404) on an empty one
SummaryLookup(colls, es, document_id) ==
    IF document_id \notin colls THEN [raised |-> TRUE, status |-> 0]
    ELSE IF StoredChunks(es, document_id) = <<>> THEN [raised |-> TRUE, status |-> 404]
    ELSE [raised |-> FALSE, status |-> 200]

\* except Exception as e: raise HTTPException(status_code=500, ...); the
\* HTTPException raised inside the try block is an Exception too
SummaryExcept(raised_status) == 500

SummaryRequestTypes == SummaryTypes \cup {"other"}

\* generate_summary_for_document: POST /document/{id}/generate-summary
GenerateSummaryForDocument ==
    /\ Idle
    /\ \E document_id \in IdSpace, summary_type \in SummaryRequestTypes :
         \E looked \in {SummaryLookup(collections, entries, document_id)} :
           \E llm_raises \in Outcomes(~looked.raised) :
             LET summary == generate_document_summary(
                                StoredChunks(entries, document_id), summary_type,
                                llm_raises)
                 endpoint == "/document/{id}/generate-summary"
             IN /\ req' = [endpoint |-> endpoint,
                           document_id |-> document_id, summary_type |-> summary_type]
                /\ IF looked.raised
                   THEN Refuse(endpoint, SummaryExcept(looked.status),
                               "Error generating summary")
                   ELSE /\ resp' = IF summary.raised
                                   THEN [endpoint |-> endpoint,
                                         status |-> SummaryExcept(0),
                                         body |-> [detail |-> "Error generating summary"]]
                                   ELSE [endpoint |-> endpoint, status |-> 200,
                                         body |-> [document_id |-> document_id,
                                                   ai_summary |-> summary.text,
                                                   summary_type |-> summary_type,
                                                   status |-> "success"]]
                        /\ llm_prompts' = summary.prompts
                        /\ trace' = <<>>
                        /\ context_data' = <<>>
                        /\ UNCHANGED <<collections, entries, issuedCount, indexing, asking>>

\* the prompts sent until a call raised out of its function
RECURSIVE PromptsUntilRaised(_)
PromptsUntilRaised(calls) ==
    IF calls = <<>> THEN <<>>
    ELSE Head(calls).prompts
         \o (IF Head(calls).raised THEN <<>> ELSE PromptsUntilRaised(Tail(calls)))

\* generate_comprehensive_summaries:
\* POST /document/{id}/generate-comprehensive-summaries
GenerateComprehensiveSummaries ==
    /\ Idle
    /\ \E document_id \in IdSpace :
         \E looked \in {SummaryLookup(collections, entries, document_id)} :
           \E raises1 \in Outcomes(~looked.raised), raises2 \in Outcomes(~looked.raised),
              raises3 \in Outcomes(~looked.raised) :
             LET chunks == StoredChunks(entries, document_id)
                 overview == generate_document_summary(chunks, "overview", raises1)
                 key_points == generate_document_summary(chunks, "key_points", raises2)
                 executive == generate_document_summary(chunks, "executive", raises3)
                 endpoint == "/document/{id}/generate-comprehensive-summaries"
             IN /\ req' = [endpoint |-> endpoint, document_id |-> document_id]
                /\ IF looked.raised
                   THEN Refuse(endpoint, SummaryExcept(looked.status),
                               "Error generating summaries")
                   ELSE /\ resp' =
                             IF overview.raised \/ key_points.raised \/ executive.raised
                             THEN [endpoint |-> endpoint, status |-> SummaryExcept(0),
                                   body |-> [detail |-> "Error generating summaries"]]
                             ELSE [endpoint |-> endpoint, status |-> 200,
                                   body |-> [document_id |-> document_id,
                                             summaries |->
                                                [overview |-> overview.text,
                                                 key_points |-> key_points.text,
                                                 executive |-> executive.text],
                                             status |-> "success"]]
                        /\ llm_prompts' =
                             PromptsUntilRaised(<<overview, key_points, executive>>)
                        /\ trace' = <<>>
                        /\ context_data' = <<>>
                        /\ UNCHANGED <<collections, entries, issuedCount, indexing, asking>>

NonEmptyQuestions == 1..MaxQuery

\* debug_document: GET /debug/document/{document_id}
DebugDocument ==
    /\ Idle
    /\ \E document_id \in IdSpace :
         LET chunks == StoredChunks(entries, document_id)
         IN /\ req' = [endpoint |-> "/debug/document", document_id |-> document_id]
            /\ resp' = [endpoint |-> "/debug/document", status |-> 200,
                        body |-> IF document_id \notin collections
                                 THEN [error |-> "get_collection",
                                       document_id |-> document_id]
                                 ELSE [document_id |-> document_id,
                                       total_chunks |-> Len(chunks),
                                       chunks |-> SubSeq(chunks, 1, Min(3, Len(chunks)))]]
            /\ trace' = <<>>
            /\ context_data' = <<>>
            /\ llm_prompts' = <<>>
            /\ UNCHANGED <<collections, entries, issuedCount, indexing, asking>>

\* debug_search (call_model = FALSE): GET /debug/search/{document_id}, and
\* debug_retrieval (call_model = TRUE): GET /debug/retrieve/{document_id}
DebugRetrieve(endpoint, call_model) ==
    /\ Idle
    /\ \E document_id \in IdSpace, query \in NonEmptyQuestions :
         \E query_raises \in Outcomes(Count(entries, document_id) > 0
                                      /\ document_id \in collections) :
           \E found \in {retrieve_context(collections, entries, query, document_id,
                                          AskK, query_raises)} :
             \E llm_raises \in Outcomes(call_model /\ found.context # <<>>) :
               /\ req' = [endpoint |-> endpoint, document_id |-> document_id,
                          question |-> query]
               /\ trace' = found.trace
               /\ context_data' = found.context
               /\ llm_prompts' = IF call_model /\ found.context # <<>>
                                 THEN <<[template |-> "debug",
                                         content |-> Contents(found.context),
                                         question |-> query, ok |-> ~llm_raises]>>
                                 ELSE <<>>
               /\ resp' = [endpoint |-> endpoint, status |-> 200,
                           body |-> IF found.raised \/ llm_raises
                                    THEN [error |-> "exception",
                                          document_id |-> document_id]
                                    ELSE [document_id |-> document_id,
                                          context_found |-> Len(found.context)]]
               /\ UNCHANGED <<collections, entries, issuedCount, indexing, asking>>

DebugSearch == DebugRetrieve("/debug/search", FALSE)

DebugRetrieval == DebugRetrieve("/debug/retrieve", TRUE)

\* debug_collections: GET /debug/collections
DebugCollections ==
    /\ Idle
    /\ req' = [endpoint |-> "/debug/collections"]
    /\ resp' = [endpoint |-> "/debug/collections", status |-> 200,
                body |-> [total_collections |-> Cardinality(collections),
                          collections |-> {[name |-> c,
                                            document_count |-> Count(entries, c)] :
                                           c \in collections}]]
    /\ trace' = <<>>
    /\ context_data' = <<>>
    /\ llm_prompts' = <<>>
    /\ UNCHANGED <<collections, entries, issuedCount, indexing, asking>>

\* the handler has returned: what the request held is dropped, the store stays
EndRequest ==
    /\ ~Idle
    /\ asking = NotAsking
    /\ req' = NoRequest
    /\ trace' = <<>>
    /\ context_data' = <<>>
    /\ llm_prompts' = <<>>
    /\ resp' = NoResponse
    /\ UNCHANGED <<collections, entries, issuedCount, indexing, asking>>

Init ==
    /\ collections = {}
    /\ entries = {}
    /\ issuedCount = [d \in IdSpace |-> 0]
    /\ req = NoRequest
    /\ trace = <<>>
    /\ context_data = <<>>
    /\ llm_prompts = <<>>
    /\ resp = NoResponse
    /\ indexing = NoIndexing
    /\ asking = NotAsking

Next ==
    \/ IndexDocument
    \/ IndexDocumentWithSummary
    \/ ContextualQa
    \/ ContextualQaMultiple
    \/ GenerateSummaryForDocument
    \/ GenerateComprehensiveSummaries
    \/ DebugDocument
    \/ DebugSearch
    \/ DebugRetrieval
    \/ DebugCollections
    \/ EndRequest

Spec == Init /\ [][Next]_vars

\* retrieve_context_multiple_docs over long lists of few documents
NextMulti ==
    \/ IndexDocumentFew
    \/ ContextualQaMultipleLong
    \/ EndRequest

SpecMulti == Init /\ [][NextMulti]_vars

\* ------------------------------------------- two requests side by side
\* CHROMA_CLIENT.get_or_create_collection(name)
get_or_create_collection(colls, name) == colls \cup {name}

\* index_document in another process, up to its first call on the store:
\* parsing, the 400 / 422 / 500 refusals, chunking and uuid4()
IndexBegin ==
    /\ indexing = NoIndexing
    /\ \E file \in Files :
        LET refusal == IndexRefusal(file)
        IN IF refusal.status # 200
           THEN /\ indexing' = [pc |-> "done", status |-> refusal.status,
                                document_id |-> NoId, chunks |-> <<>>]
                /\ UNCHANGED issuedCount
           ELSE /\ SumOver(issuedCount, IdSpace) < RaceDocs
                /\ \E document_id \in Uuid4(issuedCount) :
                     /\ issuedCount' = [issuedCount EXCEPT ![document_id] = @ + 1]
                     /\ indexing' = [pc |-> "create", status |-> 0,
                                     document_id |-> document_id,
                                     chunks |-> split_text(ParseUpload(file).text)]
    /\ UNCHANGED <<collections, entries, req, trace, context_data, llm_prompts, resp,
                   asking>>

\* insert_chunks_to_chroma: get_or_create_collection
IndexCreateCollection ==
    /\ indexing.pc = "create"
    /\ collections' = get_or_create_collection(collections, indexing.document_id)
    /\ indexing' = [indexing EXCEPT !.pc = "add"]
    /\ UNCHANGED <<entries, issuedCount, req, trace, context_data, llm_prompts, resp,
                   asking>>

\* insert_chunks_to_chroma: collection.add, which writes every chunk or raises
IndexAdd ==
    /\ indexing.pc = "add"
    /\ \E add_raises \in BOOLEAN :
         IF add_raises \/ Len(indexing.chunks) = 0
         THEN /\ indexing' = [indexing EXCEPT !.pc = "done", !.status = 500]
              /\ UNCHANGED entries
         ELSE /\ indexing' = [indexing EXCEPT !.pc = "done", !.status = 200]
              /\ entries' = Add(entries, indexing.chunks, indexing.document_id)
    /\ UNCHANGED <<collections, issuedCount, req, trace, context_data, llm_prompts, resp,
                   asking>>

\* index_document returns its response
IndexReturn ==
    /\ indexing.pc = "done"
    /\ indexing' = NoIndexing
    /\ UNCHANGED <<collections, entries, issuedCount, req, trace, context_data,
                   llm_prompts, resp, asking>>

\* the first try block of retrieve_context with get_collection outside it
retrieve_open_uncaught(colls, document_id) ==
    [found |-> document_id \in colls, raised |-> document_id \notin colls]

\* the first try block of retrieve_context, up to get_collection: a missing
\* collection raises inside it and the function returns []
retrieve_open(colls, document_id) ==
    [found |-> document_id \in colls, raised |-> FALSE]

\* the context list retrieve_context builds from the results of its query
ContextOf(results) ==
    [i \in 1..Len(results) |->
        [content |-> results[i].document,
         metadata |-> results[i].metadata,
         similarity_score |-> SingleScore(results[i].distance)]]

\* contextual_qa returns the fixed answer: retrieve_context returned []
AskNoContext ==
    /\ resp' = [endpoint |-> "/qa/ask", status |-> 200,
                body |-> [answer |-> NoContextAnswer]]
    /\ context_data' = <<>>
    /\ llm_prompts' = <<>>
    /\ asking' = NotAsking

\* contextual_qa up to the first call on the store: the 400 refusal, then
\* get_collection in retrieve_context
AskGetCollection ==
    /\ Idle
    /\ asking = NotAsking
    /\ \E document_id \in IdSpace \cup {NoId}, question \in Questions :
        /\ req' = [endpoint |-> "/qa/ask", document_id |-> document_id,
                   question |-> question]
        /\ IF MissingField(document_id, question)
           THEN Refuse("/qa/ask", 400, "Missing document_id or question.")
           ELSE \E opened \in {retrieve_open(collections, document_id)} :
                  /\ trace' = <<[call |-> "get_collection", coll |-> document_id,
                                 ok |-> opened.found]>>
                  /\ UNCHANGED <<collections, entries, issuedCount, indexing>>
                  /\ IF opened.raised
                     THEN /\ resp' = Uncaught("/qa/ask")
                          /\ context_data' = <<>>
                          /\ llm_prompts' = <<>>
                          /\ asking' = NotAsking
                     ELSE IF ~opened.found
                     THEN AskNoContext
                     ELSE /\ asking' = [pc |-> "count", collection_count |-> 0]
                          /\ UNCHANGED <<resp, context_data, llm_prompts>>

\* retrieve_context: collection.count(), and return [] on an empty collection
AskCount ==
    /\ asking.pc = "count"
    /\ \E collection_count \in {Count(entries, req.document_id)} :
         /\ trace' = Append(trace, [call |-> "count", coll |-> req.document_id,
                                    ok |-> TRUE, count |-> collection_count])
         /\ IF collection_count = 0
            THEN AskNoContext
            ELSE /\ asking' = [pc |-> "query", collection_count |-> collection_count]
                 /\ UNCHANGED <<resp, context_data, llm_prompts>>
    /\ UNCHANGED <<collections, entries, issuedCount, req, indexing>>

\* retrieve_context: collection.query and the context list; then the rest of
\* contextual_qa
AskQuery ==
    /\ asking.pc = "query"
    /\ \E query_raises \in BOOLEAN :
         \E n_results \in {Min(AskK, asking.collection_count)} :
         \E context \in {IF query_raises THEN <<>>
                         ELSE ContextOf(Query(entries, req.document_id, req.question,
                                              n_results))} :
         \E llm_raises \in Outcomes(context # <<>>) :
           LET answer == generate_rag_response(context, req.question, llm_raises)
           IN /\ trace' = Append(trace, [call |-> "query", coll |-> req.document_id,
                                         n_results |-> n_results, ok |-> ~query_raises])
              /\ IF context = <<>>
                 THEN AskNoContext
                 ELSE /\ context_data' = context
                      /\ llm_prompts' = answer.prompts
                      /\ resp' = AskAnswered(req.document_id, context, answer)
                      /\ asking' = NotAsking
    /\ UNCHANGED <<collections, entries, issuedCount, req, indexing>>

NextRace ==
    \/ IndexBegin
    \/ IndexCreateCollection
    \/ IndexAdd
    \/ IndexReturn
    \/ AskGetCollection
    \/ AskCount
    \/ AskQuery
    \/ EndRequest

SpecRace == Init /\ [][NextRace]_vars

\* ------------------------------------------------------------------ claims
\* (a value named by \E x \in {e} is computed once)
AskingMultiple ==
    req.endpoint = "/qa/ask-multiple" /\ resp.status = 200

\* the documents of the request whose collection was opened and queried
SearchedDocs ==
    {d \in Range(req.document_ids) \cap collections :
        \A i \in 1..Len(trace) : ~(trace[i].coll = d /\ ~trace[i].ok)}

\* what the index gives back for document d and the request's question
RawResults(d) == Query(entries, d, req.question, KPerDoc)

\* C1: retrieve_context_multiple_docs never returns a result whose distance is
\* 1.5 or more: every returned item is a raw result of the document it names,
\* and that raw result has a distance below 1.5.
C1_MultiBelowCutoff ==
    AskingMultiple =>
        \E searched \in {SearchedDocs} :
            \A i \in 1..Len(context_data) :
                \E item \in {context_data[i]} :
                    /\ Dist(req.question, item.content) < 15
                    /\ item.document_id \in searched
                    /\ \E raw \in {RawResults(item.document_id)} :
                          \E j \in 1..Len(raw) :
                             /\ raw[j].distance < 15
                             /\ raw[j].document = item.content
                             /\ raw[j].metadata = item.metadata
                             /\ item.source = [document |-> item.document_id,
                                               chunk |-> j - 1]

\* a multi-document retrieval returned results although the index had also
\* given it a result at distance 1.5 or more
C1_Witness ==
    /\ AskingMultiple
    /\ context_data # <<>>
    /\ \E d \in SearchedDocs : \E raw \in {RawResults(d)} :
          \E j \in 1..Len(raw) : raw[j].distance >= 15

\* the similarity scores 1 - d of the results below the cutoff, in order
RECURSIVE ScoresBelowCutoff(_)
ScoresBelowCutoff(results) ==
    IF results = <<>> THEN <<>>
    ELSE (IF Head(results).distance < 15
          THEN <<ScoreOne - 2 * Head(results).distance>> ELSE <<>>)
         \o ScoresBelowCutoff(Tail(results))

\* the scores of all the results the request accepted, document by document
RECURSIVE AcceptedScores(_, _)
AcceptedScores(ids, searched) ==
    IF ids = <<>> THEN <<>>
    ELSE (IF Head(ids) \in searched THEN ScoresBelowCutoff(RawResults(Head(ids)))
          ELSE <<>>)
         \o AcceptedScores(Tail(ids), searched)

NumWithScore(scores, s) == Cardinality({i \in 1..Len(scores) : scores[i] = s})

ReturnedScores == [i \in 1..Len(context_data) |-> context_data[i].similarity_score]

\* C2: retrieve_context_multiple_docs returns at most 10 results, ordered by
\* non-increasing similarity score, and they are the highest-scoring accepted
\* results: every accepted result scoring strictly above a returned one is
\* returned too.
C2_MultiTopTen ==
    AskingMultiple =>
        \E accepted \in {AcceptedScores(req.document_ids, SearchedDocs)} :
        \E returned \in {ReturnedScores \o <<>>} :
            /\ Len(returned) <= 10
            /\ Len(returned) = Min(10, Len(accepted))
            /\ \A i \in 1..(Len(returned) - 1) : returned[i] >= returned[i + 1]
            /\ \A s \in Range(accepted) \cup Range(returned) :
                  /\ NumWithScore(returned, s) <= NumWithScore(accepted, s)
                  /\ (\E i \in 1..Len(returned) : returned[i] < s)
                        => NumWithScore(returned, s) = NumWithScore(accepted, s)

\* more than 10 results were accepted, with different scores, 10 came back and
\* some of the lowest-scoring ones were left out
C2_Witness ==
    /\ AskingMultiple
    /\ Len(context_data) = 10
    /\ context_data[1].similarity_score > context_data[10].similarity_score
    /\ \E accepted \in {AcceptedScores(req.document_ids, SearchedDocs)} :
          /\ Len(accepted) > 10
          /\ NumWithScore(ReturnedScores, context_data[10].similarity_score)
                < NumWithScore(accepted, context_data[10].similarity_score)

\* the list without the documents that are not in searched
Without(document_ids, searched) ==
    SelectSeq(document_ids, LAMBDA d : d \in searched)

\* C3: in retrieve_context_multiple_docs a document whose collection cannot be
\* opened or queried is skipped and nothing else: the call returns normally,
\* every document of the list is still tried, and the result is the one the
\* list without the failing documents gives.
C3_MultiSkipsFailing ==
    req.endpoint = "/qa/ask-multiple" /\ resp.status # 400 =>
        /\ resp.status = 200
        /\ Cardinality({i \in 1..Len(trace) : trace[i].call = "get_collection"})
              = Len(req.document_ids)
        /\ \E searched \in {SearchedDocs} :
              context_data =
                 retrieve_context_multiple_docs(collections, entries, req.question,
                     Without(req.document_ids, searched), KPerDoc, {}).context

\* a document could not be opened, between two documents that were searched and
\* gave results
C3_Witness ==
    /\ AskingMultiple
    /\ context_data # <<>>
    /\ \E searched \in {SearchedDocs} :
          \E p \in 1..Len(req.document_ids) :
             /\ req.document_ids[p] \notin searched
             /\ \E b \in 1..(p - 1) :
                   /\ req.document_ids[b] \in searched
                   /\ ScoresBelowCutoff(RawResults(req.document_ids[b])) # <<>>
             /\ \E a \in (p + 1)..Len(req.document_ids) :
                   /\ req.document_ids[a] \in searched
                   /\ ScoresBelowCutoff(RawResults(req.document_ids[a])) # <<>>

\* the request called retrieve_context and was not refused
Retrieving ==
    /\ req.endpoint \in {"/qa/ask", "/debug/search", "/debug/retrieve"}
    /\ resp.status # 400

\* C4: querying a document identifier that was never indexed, or whose
\* collection holds no entries, gives an empty context list and no error:
\* /qa/ask answers 200 with the fixed message.
C4_MissingOrEmptyIsNoError ==
    Retrieving /\ (req.document_id \notin collections
                   \/ Count(entries, req.document_id) = 0) =>
        /\ context_data = <<>>
        /\ resp.status = 200
        /\ req.endpoint = "/qa/ask" => resp.body = [answer |-> NoContextAnswer]
        /\ \A i \in 1..Len(trace) : trace[i].call # "query"

\* /qa/ask was asked about an identifier never issued, while another document
\* is indexed
C4_Witness ==
    /\ req.endpoint = "/qa/ask"
    /\ resp.status = 200
    /\ issuedCount[req.document_id] = 0
    /\ \E d \in collections : Count(entries, d) > 0

\* /qa/ask was asked about a collection that exists and holds no entries
C4_WitnessEmpty ==
    /\ req.endpoint = "/qa/ask"
    /\ resp.status = 200
    /\ req.document_id \in collections
    /\ Count(entries, req.document_id) = 0

\* C5: when retrieval yields no chunk, the answer is the fixed "I could not
\* find relevant context ..." message and the generative model is not invoked
\* in that request: by /qa/ask, by /qa/ask-multiple, and by
\* generate_rag_response given an empty context.
C5_NoContextNoModel ==
    /\ req.endpoint \in {"/qa/ask", "/qa/ask-multiple"} /\ resp.status = 200
          /\ context_data = <<>> =>
            /\ llm_prompts = <<>>
            /\ resp.body.answer = IF req.endpoint = "/qa/ask" THEN NoContextAnswer
                                  ELSE NoContextAnswerMultiple
    /\ \A question \in Questions, llm_raises \in BOOLEAN :
          \E answer \in {generate_rag_response(<<>>, question, llm_raises)} :
             /\ answer.text = NoContextAnswer
             /\ answer.prompts = <<>>
             /\ ~answer.raised

\* /qa/ask had its query fail on a populated collection
C5_Witness ==
    /\ req.endpoint = "/qa/ask"
    /\ resp.status = 200
    /\ context_data = <<>>
    /\ \E i \in 1..Len(trace) : trace[i].call = "query" /\ ~trace[i].ok

\* /qa/ask-multiple searched a populated collection and every result was
\* beyond the cutoff
C5_ReachedByCutoff ==
    /\ req.endpoint = "/qa/ask-multiple"
    /\ resp.status = 200
    /\ context_data = <<>>
    /\ \E d \in SearchedDocs : Count(entries, d) > 0

\* C6: retrieve_context on a collection of n >= 1 entries asks the index for
\* min(k, n) results and returns every result the index gives back, in the
\* index's order (ascending distance), none dropped for its distance; so it
\* returns at most k items.
C6_SingleReturnsAll ==
    Retrieving /\ req.document_id \in collections
               /\ Count(entries, req.document_id) >= 1 =>
        \E n \in {Count(entries, req.document_id)} :
            /\ Len(trace) = 3
            /\ trace[3].call = "query"
            /\ trace[3].n_results = Min(5, n)
            /\ Len(context_data) <= 5
            /\ trace[3].ok =>
                 \E raw \in {Query(entries, req.document_id, req.question, Min(5, n))} :
                    /\ Len(context_data) = Min(5, n)
                    /\ Len(raw) = Min(5, n)
                    /\ \A i \in 1..Len(raw) :
                          /\ context_data[i].content = raw[i].document
                          /\ context_data[i].metadata = raw[i].metadata
                    /\ \A i \in 1..(Len(raw) - 1) :
                          Dist(req.question, context_data[i].content)
                             <= Dist(req.question, context_data[i + 1].content)

\* a collection of more than 5 entries was queried, and the 5 results include
\* one at distance 1.5 or more
C6_Witness ==
    /\ req.endpoint = "/qa/ask"
    /\ resp.status = 200
    /\ Count(entries, req.document_id) > 5
    /\ Len(context_data) = 5
    /\ \E i \in 1..5 : Dist(req.question, context_data[i].content) >= 15

IndexEndpoints == {"/document/index", "/document/index-with-summary"}

Indexed == req.endpoint \in IndexEndpoints /\ resp.status = 200

\* C7: no document identifier is issued twice, every stored chunk belongs to
\* the collection of exactly one issued document, and a successful index
\* request leaves in the collection of its new identifier the chunks of its
\* upload and nothing else, whatever was indexed before (the same bytes too).
C7_FreshIdentifiers ==
    /\ \A d \in IdSpace : issuedCount[d] <= 1
    /\ \A d \in collections : issuedCount[d] = 1
    /\ \A e \in entries : e.coll \in collections
    /\ \A e1, e2 \in entries : e1.coll = e2.coll /\ e1.id = e2.id => e1 = e2
    /\ Indexed =>
          StoredChunks(entries, resp.body.document_id)
             = split_text(ParseUpload(req.file).text)

\* an upload was indexed whose chunks another collection holds already
C7_Witness ==
    /\ Indexed
    /\ \E d \in collections :
          /\ d # resp.body.document_id
          /\ StoredChunks(entries, d) = StoredChunks(entries, resp.body.document_id)

\* C8: a collection that holds entries is never changed again: no request
\* adds, removes or modifies an entry of it or drops it, and entries are
\* written by index requests only.
C8_ChunksWrittenOnce ==
    [][/\ \A d \in IdSpace :
             Count(entries, d) > 0 =>
                /\ CollEntries(entries', d) = CollEntries(entries, d)
                /\ d \in collections'
       /\ entries' # entries => req'.endpoint \in IndexEndpoints]_vars

\* a second document was indexed while a populated collection existed
C8_Witness ==
    /\ Indexed
    /\ \E d \in collections :
          d # resp.body.document_id /\ Count(entries, d) > 0

SupportedTypes == {".pdf", ".docx", ".txt"}

\* C9: for every supported file type, an upload whose extracted text is empty
\* or whitespace-only is answered 422 by the two index endpoints (and nothing
\* is sent to the generative model).
C9_EmptyTextIs422 ==
    /\ req.endpoint \in IndexEndpoints
    /\ Lower(req.file.ext) \in SupportedTypes
    /\ IsBlank(ParseUpload(req.file).text)
    => resp.status = 422 /\ llm_prompts = <<>>

SummaryEndpoints == {"/document/{id}/generate-summary",
                     "/document/{id}/generate-comprehensive-summaries"}

\* C10: the two summary endpoints answer 404 when the document has no stored
\* chunks (collection empty, or never indexed).
C10_NoChunksIs404 ==
    /\ req.endpoint \in SummaryEndpoints
    /\ StoredChunks(entries, req.document_id) = <<>>
    => resp.status = 404

\* a call of the request on the generative model raised
LlmFailed == \E i \in 1..Len(llm_prompts) : ~llm_prompts[i].ok

\* the text generate_document_summary returns for the i-th prompt of the request
SummaryTextOf(i) ==
    IF llm_prompts[i].ok THEN "response.text"
    ELSE IF llm_prompts[i].template = "key_points"
    THEN "Unable to generate key_points summary at this time."
    ELSE IF llm_prompts[i].template = "executive"
    THEN "Unable to generate executive summary at this time."
    ELSE "Unable to generate overview summary at this time."

\* C11: a failure of the generative-model call is never answered with an HTTP
\* error: /qa/ask, /qa/ask-multiple and the two generate-summary endpoints
\* answer 200 in their usual shape with the failure message as text, and
\* /document/index-with-summary answers as it does when the model succeeds (200
\* with the document indexed, unless the store itself fails), the summary
\* being the fallback message.
C11_LlmFailureInBand ==
    LlmFailed =>
        /\ req.endpoint = "/qa/ask" =>
              /\ resp.status = 200
              /\ resp.body.answer = "Error: The AI service failed to generate a response"
              /\ resp.body.document_id = req.document_id
              /\ Len(resp.body.sources_used) = Len(context_data)
        /\ req.endpoint = "/qa/ask-multiple" =>
              /\ resp.status = 200
              /\ resp.body = [answer |-> "Error generating response"]
        /\ req.endpoint = "/document/{id}/generate-summary" =>
              /\ resp.status = 200
              /\ resp.body.status = "success"
              /\ resp.body.ai_summary =
                    IF req.summary_type = "detailed"
                    THEN "Unable to generate detailed summary at this time."
                    ELSE IF req.summary_type = "other"
                    THEN "Unable to generate (given type) summary at this time."
                    ELSE SummaryTextOf(1)
        /\ req.endpoint = "/document/{id}/generate-comprehensive-summaries" =>
              /\ resp.status = 200
              /\ resp.body.status = "success"
              /\ Len(llm_prompts) = 3
              /\ resp.body.summaries = [overview |-> SummaryTextOf(1),
                                        key_points |-> SummaryTextOf(2),
                                        executive |-> SummaryTextOf(3)]
        /\ req.endpoint = "/document/index-with-summary" =>
              /\ resp.status # 200 =>
                    resp.body = [detail |-> "Database error during indexing"]
              /\ resp.status = 200 =>
                    /\ resp.body.ai_summary =
                          "Unable to generate overview summary at this time."
                    /\ resp.body.total_chunks_indexed
                          = Count(entries, resp.body.document_id)
                    /\ StoredChunks(entries, resp.body.document_id)
                          = split_text(ParseUpload(req.file).text)

\* the summary call of /document/index-with-summary failed and the document
\* was indexed all the same
C11_Witness ==
    /\ LlmFailed
    /\ req.endpoint = "/document/index-with-summary"
    /\ resp.status = 200
    /\ Count(entries, resp.body.document_id) > 0

\* of the three calls of generate-comprehensive-summaries only the second failed
C11_WitnessOneOfThree ==
    /\ req.endpoint = "/document/{id}/generate-comprehensive-summaries"
    /\ Len(llm_prompts) = 3
    /\ llm_prompts[1].ok /\ ~llm_prompts[2].ok /\ llm_prompts[3].ok

\* /qa/ask had its model call fail
C11_WitnessAsk ==
    /\ LlmFailed
    /\ req.endpoint = "/qa/ask"

\* the spellings of the supported extensions
SupportedSpellings == {".pdf", ".PDF", ".docx", ".DOCX", ".txt", ".TXT"}

\* C12: an upload whose extension, compared case-insensitively, is not .pdf,
\* .docx or .txt is answered 400 "Unsupported file type" by the two index
\* endpoints, whatever its content, and the request leaves the store as it
\* was: no identifier is generated, no collection created, no entry written,
\* no prompt sent; an upload with a supported extension in either case is never
\* answered 400.
C12_UnsupportedIs400 ==
    [][Idle /\ req'.endpoint \in IndexEndpoints =>
          /\ req'.file.ext \notin SupportedSpellings =>
                /\ resp'.status = 400
                /\ resp'.body = [detail |-> "Unsupported file type"]
                /\ collections' = collections
                /\ entries' = entries
                /\ issuedCount' = issuedCount
                /\ llm_prompts' = <<>>
          /\ req'.file.ext \in SupportedSpellings => resp'.status # 400]_vars

\* an upload of unsupported type was refused although its content is text that
\* parses, while a document is indexed
C12_Witness ==
    /\ req.endpoint \in IndexEndpoints
    /\ req.file.ext = ".csv"
    /\ ~IsBlank(req.file.units)
    /\ resp.status = 400
    /\ entries # {}

\* an upload of unsupported type and blank content was refused with 400
C12_WitnessBlank ==
    /\ req.endpoint \in IndexEndpoints
    /\ req.file.ext = ".csv"
    /\ IsBlank(req.file.units)
    /\ resp.status = 400

\* C13: /qa/ask answers 400 whenever document_id or question is missing or
\* empty, and /qa/ask-multiple whenever document_ids or question is; the
\* request then makes no call on the index and sends no prompt to the model.
C13_MissingFieldIs400 ==
    /\ req.endpoint = "/qa/ask" /\ (req.document_id = NoId \/ req.question = 0) =>
          /\ resp.status = 400
          /\ trace = <<>> /\ context_data = <<>> /\ llm_prompts = <<>>
    /\ req.endpoint = "/qa/ask-multiple"
          /\ (Len(req.document_ids) = 0 \/ req.question = 0) =>
          /\ resp.status = 400
          /\ trace = <<>> /\ context_data = <<>> /\ llm_prompts = <<>>

\* /qa/ask without a question was refused, for a document that is indexed
C13_Witness ==
    /\ req.endpoint = "/qa/ask"
    /\ req.question = 0
    /\ req.document_id \in collections
    /\ Count(entries, req.document_id) > 0
    /\ resp.status = 400

\* /qa/ask-multiple without a question was refused, for a document that is indexed
C13_WitnessMultiple ==
    /\ req.endpoint = "/qa/ask-multiple"
    /\ req.question = 0
    /\ \E i \in 1..Len(req.document_ids) : Count(entries, req.document_ids[i]) > 0
    /\ resp.status = 400

\* C14: every similarity score attached to a retrieval result, by
\* retrieve_context and by retrieve_context_multiple_docs, is 1 - d/2 for the
\* distance d of the result, and lies in [0, 1].
C14_ScoreIsHalfDistance ==
    (Retrieving \/ AskingMultiple) =>
        \A i \in 1..Len(context_data) :
            /\ context_data[i].similarity_score
                  = ScoreOne - Dist(req.question, context_data[i].content)
            /\ context_data[i].similarity_score \in 0..ScoreOne

\* the part of C14 that holds: the scores of retrieve_context
C14_SingleScoreIsHalfDistance ==
    Retrieving =>
        \A i \in 1..Len(context_data) :
            /\ context_data[i].similarity_score
                  = ScoreOne - Dist(req.question, context_data[i].content)
            /\ context_data[i].similarity_score \in 0..ScoreOne

\* /qa/ask has answered a request that has both its fields
AskAnsweredRace ==
    /\ req.endpoint = "/qa/ask"
    /\ resp # NoResponse
    /\ resp.status # 400

\* what the request saw of the collection
SawAbsent == ~trace[1].ok

SawEmpty == Len(trace) >= 2 /\ trace[2].count = 0

\* C15: however the store calls of an index request and of a /qa/ask request
\* interleave, /qa/ask answers 200: with the fixed "no context" answer when it
\* finds the collection absent or created and still empty, and otherwise from
\* entries of the collection, as many as min(5, the count it read).
C15_AskNeverFailsBesideIndexing ==
    AskAnsweredRace =>
        /\ resp.status = 200
        /\ SawAbsent =>
              /\ Len(trace) = 1
              /\ resp.body = [answer |-> NoContextAnswer]
              /\ llm_prompts = <<>>
        /\ ~SawAbsent /\ SawEmpty =>
              /\ Len(trace) = 2
              /\ resp.body = [answer |-> NoContextAnswer]
              /\ llm_prompts = <<>>
        /\ ~SawAbsent /\ ~SawEmpty =>
              /\ Len(trace) = 3
              /\ \A i \in 1..Len(context_data) :
                    \E e \in CollEntries(entries, req.document_id) :
                       /\ e.document = context_data[i].content
                       /\ e.metadata = context_data[i].metadata
              /\ ~trace[3].ok => resp.body = [answer |-> NoContextAnswer]
              /\ trace[3].ok =>
                    /\ Len(context_data) = Min(5, trace[2].count)
                    /\ resp.body.document_id = req.document_id
                    /\ Len(llm_prompts) = 1
                    /\ llm_prompts[1].content = Contents(context_data)

\* /qa/ask read the collection of the document being indexed between
\* get_or_create_collection and collection.add
C15_Witness ==
    /\ AskAnsweredRace
    /\ indexing.pc = "add"
    /\ indexing.document_id = req.document_id
    /\ SawEmpty

\* /qa/ask looked for the collection of the document being indexed before
\* get_or_create_collection
C15_WitnessAbsent ==
    /\ AskAnsweredRace
    /\ indexing.pc = "create"
    /\ indexing.document_id = req.document_id
    /\ SawAbsent

\* /qa/ask found the collection before collection.add and counted it afterwards
C15_WitnessOvertaken ==
    /\ req.endpoint = "/qa/ask"
    /\ asking.pc = "count"
    /\ indexing.pc = "add"
    /\ indexing.document_id = req.document_id

\* /qa/ask answered from the entries of a document whose index request has not
\* returned yet
C15_WitnessPopulated ==
    /\ AskAnsweredRace
    /\ indexing.pc = "done"
    /\ indexing.document_id = req.document_id
    /\ context_data # <<>>

\* the upload has text to extract: a page of 10 characters or more in a PDF,
\* a non-blank paragraph or line otherwise
HasExtractableText(file) ==
    IF file.ext \in {".pdf", ".PDF"}
    THEN \E i \in 1..Len(file.units) : file.units[i].len >= 10
    ELSE \E i \in 1..Len(file.units) : file.units[i].len > 0

StoreFailed == resp.body = [detail |-> "Database error during indexing"]

\* the collection of the indexed document holds one entry per chunk of the
\* upload, chunk i under its own identifier with chunk_index = i
OneEntryPerChunk ==
    \E n \in {resp.body.total_chunks_indexed} :
    \E stored \in {CollEntries(entries, resp.body.document_id)} :
    \E chunks \in {split_text(ParseUpload(req.file).text)} :
        /\ n >= 1
        /\ n = Len(chunks)
        /\ Cardinality(stored) = n
        /\ \A e1, e2 \in stored : e1.id = e2.id => e1 = e2
        /\ \A i \in 0..(n - 1) :
              \E e \in stored :
                 /\ e.id = i
                 /\ e.metadata = [chunk_index |-> i]
                 /\ e.document = chunks[i + 1]

\* C16: an upload of a supported type that has text to extract is indexed
\* (unless the store fails) with total_chunks_indexed = n >= 1, and its
\* collection then holds exactly n entries, chunk i under an identifier of its
\* own with chunk_index = i.
C16_IndexedOnePerChunk ==
    /\ req.endpoint \in IndexEndpoints
    /\ req.file.ext \in SupportedSpellings
    /\ HasExtractableText(req.file)
    /\ ~StoreFailed
    => resp.status = 200 /\ OneEntryPerChunk

\* the part of C16 that holds: every upload the parsing step returns non-blank
\* text for is indexed one entry per chunk
C16_ParsedIsIndexedOnePerChunk ==
    /\ req.endpoint \in IndexEndpoints
    /\ ParseUpload(req.file).status = 200
    /\ ~IsBlank(ParseUpload(req.file).text)
    /\ ~StoreFailed
    => resp.status = 200 /\ OneEntryPerChunk

\* an upload of several chunks was indexed
C16_ReachedSeveralChunks ==
    /\ Indexed
    /\ resp.body.total_chunks_indexed > 1

\* the chunks generate_document_summary was given by the request
SummarizedChunks ==
    IF req.endpoint = "/document/index-with-summary"
    THEN split_text(ParseUpload(req.file).text)
    ELSE StoredChunks(entries, req.document_id)

\* C17: every prompt generate_document_summary sends holds the first 15 chunks
\* it was given, in order, or all of them when there are 15 or fewer, and
\* nothing of the later ones; a summary type that is none of overview,
\* key_points, executive, detailed gets the overview template.
C17_SummaryReadsFirst15 ==
    req.endpoint \in SummaryEndpoints \cup {"/document/index-with-summary"} =>
        \E chunks \in {SummarizedChunks} :
            \A p \in 1..Len(llm_prompts) :
                /\ Len(llm_prompts[p].content) = IF Len(chunks) <= 15 THEN Len(chunks)
                                                 ELSE 15
                /\ \A j \in 1..Len(llm_prompts[p].content) :
                      llm_prompts[p].content[j] = chunks[j]
                /\ req.endpoint = "/document/{id}/generate-summary" =>
                      llm_prompts[p].template =
                         IF req.summary_type \in {"overview", "key_points",
                                                  "executive", "detailed"}
                         THEN req.summary_type ELSE "overview"

\* a summary of unknown type was made of a document of more than 15 chunks,
\* whose 16th chunk differs from the 15 before it
C17_Witness ==
    /\ req.endpoint = "/document/{id}/generate-summary"
    /\ req.summary_type = "other"
    /\ Len(llm_prompts) = 1
    /\ \E chunks \in {SummarizedChunks} :
          /\ Len(chunks) > 15
          /\ \A j \in 1..15 : chunks[j] # chunks[16]

\* a summary was made of a document of fewer than 15 chunks
C17_WitnessShort ==
    /\ req.endpoint = "/document/{id}/generate-summary"
    /\ Len(llm_prompts) = 1
    /\ Len(llm_prompts[1].content) > 1
    /\ Len(llm_prompts[1].content) < 15

\* the pages of at least min_len characters, each under its 1-based number
RECURSIVE PagesOfAtLeast(_, _, _)
PagesOfAtLeast(pages, number, min_len) ==
    IF number > Len(pages) THEN <<>>
    ELSE (IF pages[number].len >= min_len
          THEN <<[label |-> number, len |-> pages[number].len,
                  val |-> pages[number].val]>>
          ELSE <<>>)
         \o PagesOfAtLeast(pages, number + 1, min_len)

IndexingPdf ==
    /\ req.endpoint \in IndexEndpoints
    /\ req.file.ext \in {".pdf", ".PDF"}

\* C18: parse_pdf keeps exactly the pages of 10 characters or more, each
\* under a label with its original 1-based page number, in page order, and
\* fails when it keeps no page.
C18_KeepsPagesOf10 ==
    IndexingPdf =>
        \E kept \in {PagesOfAtLeast(req.file.units, 1, 10)} :
        \E parsed \in {parse_pdf(req.file)} :
            /\ kept = <<>> => parsed.status = 500 /\ resp.status = 500
            /\ kept # <<>> => parsed.status = 200 /\ parsed.text = kept

\* the part of C18 that holds: the same with the pages of more than 10
\* characters
C18_KeepsPagesOver10 ==
    IndexingPdf =>
        \E kept \in {PagesOfAtLeast(req.file.units, 1, 11)} :
        \E parsed \in {parse_pdf(req.file)} :
            /\ kept = <<>> => parsed.status = 500 /\ resp.status = 500
            /\ kept # <<>> => parsed.status = 200 /\ parsed.text = kept

\* a PDF was indexed whose kept pages are not its first ones
C18_ReachedRenumbering ==
    /\ IndexingPdf
    /\ resp.status = 200
    /\ StoredChunks(entries, resp.body.document_id)[1].label > 1

====
